---- MODULE Spec2Model ----
(***************************************************************************)
(* Model of StreamingJsonParser (streaming_json_parser.py).                *)
(*                                                                         *)
(* A Python string is a sequence of one-character strings.  A dict is a    *)
(* function from keys to values and lives in `heap` under an object id, so *)
(* that `stack` and `result` hold references as they do in Python.         *)
(* A Python value (None, a str, a reference to a dict) is a record         *)
(* [kind, str, ref].                                                       *)
(***************************************************************************)
EXTENDS Integers, Sequences, FiniteSets, TLC

VARIABLES stack, current_key, current_value, in_string, partial_string,
          result, heap,
          raised, ret, ret_ref, op, gets, chunks,
          input, pos, pairs, gap, wf, opens, quotes

fields == <<stack, current_key, current_value, in_string, partial_string,
            result, heap>>
vars == <<stack, current_key, current_value, in_string, partial_string,
          result, heap, raised, ret, ret_ref, op, gets, chunks,
          input, pos, pairs, gap, wf, opens, quotes>>

----------------------------------------------------------------------------
(* Bounds                                                                  *)

MaxPairs == 2
MaxAny == 2
MaxChunks == 2
MaxGets == 2
MaxFed == 5
MaxBuf == 2

----------------------------------------------------------------------------
(* Characters                                                              *)

Special == {"{", "}", ":", "\"", ","}
Letters == {"a", "b"}
Whitespace == {" "}
Chars == Special \cup Letters \cup Whitespace

----------------------------------------------------------------------------
(* Python values and dicts                                                 *)

None == [kind |-> "none", str |-> <<>>, ref |-> 0]
Str(s) == [kind |-> "str", str |-> s, ref |-> 0]
Obj(i) == [kind |-> "obj", str |-> <<>>, ref |-> i]

EmptyDict == [k \in {} |-> None]
DictSet(d, k, v) == [x \in (DOMAIN d) \cup {k} |-> IF x = k THEN v ELSE d[x]]

\* bool(v) as Python's `if v:` computes it
Truthy(v, h) ==
    CASE v.kind = "none" -> FALSE
      [] v.kind = "str" -> v.str # <<>>
      [] v.kind = "obj" -> DOMAIN h[v.ref] # {}

----------------------------------------------------------------------------
(* The parser object: its six fields, the heap its dicts live in, and the  *)
(* exception (if any) the running call has raised.                         *)

NewParser ==
    [stack |-> <<>>,
     current_key |-> None,
     current_value |-> None,
     in_string |-> FALSE,
     partial_string |-> <<>>,
     result |-> 1,
     heap |-> <<EmptyDict>>,
     error |-> "none"]

\* object ids are the indices of heap; {} allocates the next one
Deref(p, i) == p.heap[i]

Ok(p) == p.error = "none"
Raise(p, e) == IF Ok(p) THEN [p EXCEPT !.error = e] ELSE p

\* self.stack[-1][k] = v
SetTopItem(p, k, v) ==
    IF ~Ok(p) THEN p
    ELSE IF p.stack = <<>> THEN Raise(p, "IndexError")
    ELSE IF k.kind = "obj" THEN Raise(p, "TypeError")   \* unhashable
    ELSE LET top == p.stack[Len(p.stack)]
         IN  [p EXCEPT !.heap[top] = DictSet(@, k, v)]

\* d[k] = v for the dict with id i
SetItem(p, i, k, v) ==
    IF ~Ok(p) THEN p
    ELSE IF k.kind = "obj" THEN Raise(p, "TypeError")
    ELSE [p EXCEPT !.heap[i] = DictSet(@, k, v)]

\* self.stack.pop(): the parser after the pop (the popped id is Top(p))
Top(p) == IF p.stack = <<>> THEN 0 ELSE p.stack[Len(p.stack)]
Pop(p) ==
    IF ~Ok(p) THEN p
    ELSE IF p.stack = <<>> THEN Raise(p, "IndexError")
    ELSE [p EXCEPT !.stack = SubSeq(@, 1, Len(@) - 1)]

\* self.<f> = v
Assign(p, f, v) == IF Ok(p) THEN [p EXCEPT ![f] = v] ELSE p

----------------------------------------------------------------------------
(* The handlers                                                            *)

\* variant: every '{' pushes a new object
_handle_start_object_always(p) ==
    [p EXCEPT !.heap = Append(@, EmptyDict),
              !.stack = Append(@, Len(p.heap) + 1)]

\* if not self.stack: self.stack.append({})
_handle_start_object(p) ==
    IF p.stack = <<>>
    THEN [p EXCEPT !.heap = Append(@, EmptyDict),
                   !.stack = Append(@, Len(p.heap) + 1)]
    ELSE p

\* variant: with nothing on the stack, '}' completes a new empty object
_handle_end_object_default(p) ==
    IF p.stack # <<>>
    THEN LET p1 == IF Truthy(p.current_key, p.heap) /\ p.current_value # None
                   THEN SetTopItem(p, p.current_key, p.current_value)
                   ELSE p
             completed_object == Top(p1)
             p2 == Pop(p1)
         IN  IF p2.stack # <<>>
             THEN IF Truthy(p2.current_key, p2.heap)
                  THEN Assign(SetTopItem(p2, p2.current_key,
                                         Obj(completed_object)),
                              "current_key", None)
                  ELSE p2
             ELSE LET p3 == IF Truthy(p2.current_key, p2.heap)
                               /\ p2.current_value # None
                            THEN SetItem(p2, completed_object,
                                         p2.current_key, p2.current_value)
                            ELSE p2
                  IN  Assign(p3, "result", completed_object)
    ELSE [p EXCEPT !.heap = Append(@, EmptyDict), !.result = Len(p.heap) + 1]

_handle_end_object(p) ==
    IF p.stack # <<>>
    THEN LET p1 == IF Truthy(p.current_key, p.heap) /\ p.current_value # None
                   THEN SetTopItem(p, p.current_key, p.current_value)
                   ELSE p
             completed_object == Top(p1)
             p2 == Pop(p1)
         IN  IF p2.stack # <<>>
             THEN IF Truthy(p2.current_key, p2.heap)
                  THEN Assign(SetTopItem(p2, p2.current_key,
                                         Obj(completed_object)),
                              "current_key", None)
                  ELSE p2
             ELSE LET p3 == IF Truthy(p2.current_key, p2.heap)
                               /\ p2.current_value # None
                            THEN SetItem(p2, completed_object,
                                         p2.current_key, p2.current_value)
                            ELSE p2
                  IN  Assign(p3, "result", completed_object)
    ELSE p

_handle_colon(p) == p

\* variant: the closing quote tests current_key for truth, not for None
_handle_quote_falsy_key(p) ==
    IF p.in_string
    THEN LET p1 == IF ~Truthy(p.current_key, p.heap)
                   THEN Assign(p, "current_key", Str(p.partial_string))
                   ELSE Assign(p, "current_value", Str(p.partial_string))
         IN  Assign(Assign(p1, "partial_string", <<>>), "in_string", FALSE)
    ELSE Assign(Assign(p, "in_string", TRUE), "partial_string", <<>>)

_handle_quote(p) ==
    IF p.in_string
    THEN LET p1 == IF p.current_key = None
                   THEN Assign(p, "current_key", Str(p.partial_string))
                   ELSE Assign(p, "current_value", Str(p.partial_string))
         IN  Assign(Assign(p1, "partial_string", <<>>), "in_string", FALSE)
    ELSE Assign(Assign(p, "in_string", TRUE), "partial_string", <<>>)

\* variant: without a Frame on the stack the pending pair is kept
_handle_comma_needs_stack(p) ==
    IF Truthy(p.current_key, p.heap) /\ p.current_value # None
       /\ p.stack # <<>>
    THEN Assign(Assign(SetTopItem(p, p.current_key, p.current_value),
                       "current_key", None),
                "current_value", None)
    ELSE p

\* variant: only current_key is reset after the pair is stored
_handle_comma_keeps_value(p) ==
    IF Truthy(p.current_key, p.heap) /\ p.current_value # None
    THEN LET p1 == IF p.stack # <<>>
                   THEN SetTopItem(p, p.current_key, p.current_value)
                   ELSE p
         IN  Assign(p1, "current_key", None)
    ELSE p

\* variant: the pending pair is stored without looking at the stack
_handle_comma_unguarded(p) ==
    IF Truthy(p.current_key, p.heap) /\ p.current_value # None
    THEN Assign(Assign(SetTopItem(p, p.current_key, p.current_value),
                       "current_key", None),
                "current_value", None)
    ELSE p

\* variant: the pending pair is cleared without being stored
_handle_comma_drop(p) ==
    IF Truthy(p.current_key, p.heap) /\ p.current_value # None
    THEN Assign(Assign(p, "current_key", None), "current_value", None)
    ELSE p

_handle_comma(p) ==
    IF Truthy(p.current_key, p.heap) /\ p.current_value # None
    THEN LET p1 == IF p.stack # <<>>
                   THEN SetTopItem(p, p.current_key, p.current_value)
                   ELSE p
         IN  Assign(Assign(p1, "current_key", None), "current_value", None)
    ELSE p

\* s += char for a value s; a str is required on the left
Concat(p, f, char) ==
    IF ~Ok(p) THEN p
    ELSE IF p[f].kind # "str" THEN Raise(p, "TypeError")
    ELSE [p EXCEPT ![f] = Str(Append(@.str, char))]

\* variant: whitespace outside a string is not discarded
_handle_non_special_character_keep_space(p, char) ==
    IF p.in_string
    THEN Assign(p, "partial_string", Append(p.partial_string, char))
    ELSE IF p.current_value = None
         THEN Assign(p, "current_value", Str(<<char>>))
         ELSE Concat(p, "current_value", char)

_handle_non_special_character(p, char) ==
    IF p.in_string
    THEN Assign(p, "partial_string", Append(p.partial_string, char))
    ELSE IF ~p.in_string /\ char \notin Whitespace
    THEN IF p.current_value = None
         THEN Assign(p, "current_value", Str(<<char>>))
         ELSE Concat(p, "current_value", char)
    ELSE p

\* variant: the entries for '{' and '}' of the actions table are swapped
Dispatch_swapped(p, char) ==
    CASE char = "{" -> _handle_end_object(p)
      [] char = "}" -> _handle_start_object(p)
      [] char = ":" -> _handle_colon(p)
      [] char = "\"" -> _handle_quote(p)
      [] char = "," -> _handle_comma(p)
      [] OTHER -> _handle_non_special_character(p, char)

\* the body of consume's loop: the actions table and the dispatch on it
Dispatch(p, char) ==
    CASE char = "{" -> _handle_start_object(p)
      [] char = "}" -> _handle_end_object(p)
      [] char = ":" -> _handle_colon(p)
      [] char = "\"" -> _handle_quote(p)
      [] char = "," -> _handle_comma(p)
      [] OTHER -> _handle_non_special_character(p, char)

RECURSIVE Loop(_, _)
Loop(p, buffer) ==
    IF buffer = <<>> \/ ~Ok(p) THEN p
    ELSE Loop(Dispatch(p, Head(buffer)), Tail(buffer))

\* variant: the string accumulator is local to one consume call
consume_local_string(p, buffer) ==
    Loop([p EXCEPT !.in_string = FALSE, !.partial_string = <<>>], buffer)

consume(p, buffer) == Loop(p, buffer)

\* variant: the snapshot is a new copy of the open Frame, which stays open
get_copy(p) ==
    LET p1 == IF Truthy(p.current_key, p.heap) /\ p.current_value # None
                 /\ p.stack # <<>>
              THEN Assign(Assign(SetTopItem(p, p.current_key,
                                            p.current_value),
                                 "current_key", None),
                          "current_value", None)
              ELSE IF p.current_key # None /\ p.current_value = None
                      /\ p.stack # <<>>
              THEN Assign(Assign(SetTopItem(p, p.current_key,
                                            Str(p.partial_string)),
                                 "current_key", None),
                          "current_value", None)
              ELSE p
    IN  IF p1.stack # <<>>
        THEN [p1 EXCEPT !.heap = Append(@, Deref(p1, Top(p1))),
                        !.result = Len(p1.heap) + 1]
        ELSE p1

\* variant: the snapshot is the open Frame itself, left on the stack
get_peek(p) ==
    LET p1 == IF Truthy(p.current_key, p.heap) /\ p.current_value # None
                 /\ p.stack # <<>>
              THEN Assign(Assign(SetTopItem(p, p.current_key,
                                            p.current_value),
                                 "current_key", None),
                          "current_value", None)
              ELSE IF p.current_key # None /\ p.current_value = None
                      /\ p.stack # <<>>
              THEN Assign(Assign(SetTopItem(p, p.current_key,
                                            Str(p.partial_string)),
                                 "current_key", None),
                          "current_value", None)
              ELSE p
    IN  IF Deref(p1, p1.result) = EmptyDict /\ p1.stack # <<>>
        THEN Assign(p1, "result", Top(p1))
        ELSE p1

\* variant: a key without a closed value is given the empty string
get_empty_value(p) ==
    LET p1 == IF Truthy(p.current_key, p.heap) /\ p.current_value # None
                 /\ p.stack # <<>>
              THEN Assign(Assign(SetTopItem(p, p.current_key,
                                            p.current_value),
                                 "current_key", None),
                          "current_value", None)
              ELSE IF p.current_key # None /\ p.current_value = None
                      /\ p.stack # <<>>
              THEN Assign(Assign(SetTopItem(p, p.current_key, Str(<<>>)),
                                 "current_key", None),
                          "current_value", None)
              ELSE p
    IN  IF Deref(p1, p1.result) = EmptyDict /\ p1.stack # <<>>
        THEN Assign(Pop(p1), "result", Top(p1))
        ELSE p1

\* variant: the open string is stored whether or not a key is pending
get_any_key(p) ==
    LET p1 == IF Truthy(p.current_key, p.heap) /\ p.current_value # None
                 /\ p.stack # <<>>
              THEN Assign(Assign(SetTopItem(p, p.current_key,
                                            p.current_value),
                                 "current_key", None),
                          "current_value", None)
              ELSE IF p.current_value = None /\ p.stack # <<>>
              THEN Assign(Assign(SetTopItem(p, p.current_key,
                                            Str(p.partial_string)),
                                 "current_key", None),
                          "current_value", None)
              ELSE p
    IN  IF Deref(p1, p1.result) = EmptyDict /\ p1.stack # <<>>
        THEN Assign(Pop(p1), "result", Top(p1))
        ELSE p1

\* the parser after get(); the value returned is its result field
get(p) ==
    LET p1 == IF Truthy(p.current_key, p.heap) /\ p.current_value # None
                 /\ p.stack # <<>>
              THEN Assign(Assign(SetTopItem(p, p.current_key,
                                            p.current_value),
                                 "current_key", None),
                          "current_value", None)
              ELSE IF p.current_key # None /\ p.current_value = None
                      /\ p.stack # <<>>
              THEN Assign(Assign(SetTopItem(p, p.current_key,
                                            Str(p.partial_string)),
                                 "current_key", None),
                          "current_value", None)
              ELSE p
    IN  IF Deref(p1, p1.result) = EmptyDict /\ p1.stack # <<>>
        THEN Assign(Pop(p1), "result", Top(p1))
        ELSE p1

----------------------------------------------------------------------------
(* Input texts                                                             *)

\* well-formed flat objects: "{" members "}" with `gap` between the tokens
KeyVals == {<< <<"a">>, <<>> >>,
            << <<"a">>, <<"a", " ">> >>,
            << <<" ", "b">>, <<"b">> >>}
Gaps == {<<>>, <<" ">>}

RECURSIVE SeqsUpTo(_, _)
SeqsUpTo(S, n) ==
    IF n = 0 THEN {<<>>}
    ELSE LET shorter == SeqsUpTo(S, n - 1)
         IN  shorter \cup {Append(s, x) : s \in shorter, x \in S}

Quoted(s) == <<"\"">> \o s \o <<"\"">>
PairText(pr, g) == Quoted(pr[1]) \o g \o <<":">> \o g \o Quoted(pr[2]) \o g

RECURSIVE Members(_, _)
Members(ps, g) ==
    IF ps = <<>> THEN <<>>
    ELSE IF Len(ps) = 1 THEN PairText(ps[1], g)
    ELSE PairText(ps[1], g) \o <<",">> \o g \o Members(Tail(ps), g)

Render(ps, g) == <<"{">> \o g \o Members(ps, g) \o <<"}">>

\* number of characters of Render(ps, g) before the opening quote of pair i
Before(ps, g, i) ==
    1 + Len(g) + Len(Members(SubSeq(ps, 1, i - 1), g))
      + (IF i > 1 THEN 1 + Len(g) ELSE 0)
\* ... through the closing quote of key i
KeyClosed(ps, g, i) == Before(ps, g, i) + Len(ps[i][1]) + 2
\* ... through the opening quote of value i
ValOpened(ps, g, i) == KeyClosed(ps, g, i) + Len(g) + 1 + Len(g) + 1
\* ... through the closing quote of value i
ValClosed(ps, g, i) == ValOpened(ps, g, i) + Len(ps[i][2]) + 1

\* the mapping a sequence of pairs denotes (a later pair overrides)
RECURSIVE MapOf(_)
MapOf(ps) ==
    IF ps = <<>> THEN EmptyDict
    ELSE LET n == Len(ps)
         IN  DictSet(MapOf(SubSeq(ps, 1, n - 1)), Str(ps[n][1]), Str(ps[n][2]))

Count(s, c) == Cardinality({i \in 1..Len(s) : s[i] = c})

----------------------------------------------------------------------------
(* The state machine                                                       *)

Self ==
    [stack |-> stack,
     current_key |-> current_key,
     current_value |-> current_value,
     in_string |-> in_string,
     partial_string |-> partial_string,
     result |-> result,
     heap |-> heap,
     error |-> "none"]

Becomes(q) ==
    /\ stack' = q.stack
    /\ current_key' = q.current_key
    /\ current_value' = q.current_value
    /\ in_string' = q.in_string
    /\ partial_string' = q.partial_string
    /\ result' = q.result
    /\ heap' = q.heap
    /\ raised' = q.error

InitParser ==
    /\ stack = NewParser.stack
    /\ current_key = NewParser.current_key
    /\ current_value = NewParser.current_value
    /\ in_string = NewParser.in_string
    /\ partial_string = NewParser.partial_string
    /\ result = NewParser.result
    /\ heap = NewParser.heap
    /\ raised = "none"
    /\ ret = EmptyDict
    /\ ret_ref = 0
    /\ op = "init"
    /\ gets = 0
    /\ chunks = 0
    /\ pos = 0
    /\ opens = 0
    /\ quotes = 0

\* a caller that feeds whatever it likes
Init ==
    /\ InitParser
    /\ input = <<>>
    /\ pairs = <<>>
    /\ gap = <<>>
    /\ wf = FALSE

\* parser.consume(buffer)
Consume(buffer) ==
    /\ pos + Len(buffer) <= MaxFed
    /\ Becomes(consume(Self, buffer))
    /\ pos' = pos + Len(buffer)
    /\ opens' = opens + Count(buffer, "{")
    /\ quotes' = quotes + Count(buffer, "\"")
    /\ op' = "consume"
    /\ UNCHANGED <<ret, ret_ref, gets, chunks, input, pairs, gap, wf>>

\* parser.get()
Get ==
    /\ gets < MaxGets
    /\ LET q == get(Self)
       IN  /\ Becomes(q)
           /\ ret' = Deref(q, q.result)
           /\ ret_ref' = q.result
    /\ gets' = gets + 1
    /\ op' = "get"
    /\ UNCHANGED <<chunks, pos, opens, quotes, input, pairs, gap, wf>>

Next ==
    \/ \E buffer \in SeqsUpTo(Chars, MaxBuf) \ {<<>>} : Consume(buffer)
    \/ Get

Spec == Init /\ [][Next]_vars

\* a caller that streams one text, cut into chunks wherever it likes
InitStream ==
    /\ InitParser
    /\ \/ /\ wf = TRUE
          /\ pairs \in SeqsUpTo(KeyVals, MaxPairs)
          /\ gap \in Gaps
          /\ input = Render(pairs, gap)
       \/ /\ wf = FALSE
          /\ pairs = <<>>
          /\ gap = <<>>
          /\ input \in SeqsUpTo(Chars, MaxAny)

\* parser.consume(chunk) for the next k characters of the text
ConsumeChunk(k) ==
    /\ chunks < MaxChunks
    /\ pos + k <= Len(input)
    /\ LET buffer == SubSeq(input, pos + 1, pos + k)
       IN  /\ Becomes(consume(Self, buffer))
           /\ opens' = opens + Count(buffer, "{")
           /\ quotes' = quotes + Count(buffer, "\"")
    /\ pos' = pos + k
    /\ chunks' = chunks + 1
    /\ op' = "consume"
    /\ UNCHANGED <<ret, ret_ref, gets, input, pairs, gap, wf>>

NextStream ==
    \/ \E k \in 1..(Len(input) - pos) : ConsumeChunk(k)
    \/ Get

SpecStream == InitStream /\ [][NextStream]_vars

----------------------------------------------------------------------------
(* Properties                                                              *)

\* what one call does to the parser: a character handled, or get()
Do(p, o) == IF o = "get" THEN get(p) ELSE Dispatch(p, o)

\* the mapping get() returns for parser p
Returned(p) == Deref(get(p), get(p).result)

Prefix(s, n) == IF n <= 0 THEN <<>> ELSE SubSeq(s, 1, n)

\* the final get(): every character fed, and get() the last call
FinalGet == pos = Len(input) /\ op = "get"
\* get() called once, after all the chunks fed so far
FirstGet == gets = 1 /\ op = "get"

\* C1: a well-formed flat object fed in one consume call, then one get():
\* the mapping returned is the one the pairs denote (last occurrence of a
\* key wins, whitespace inside the strings kept).
C1_SingleChunkRoundTrip ==
    (wf /\ chunks = 1 /\ FirstGet /\ pos = Len(input)) => ret = MapOf(pairs)

C1_Witness ==
    /\ wf /\ chunks = 1 /\ FirstGet /\ pos = Len(input)
    /\ Len(pairs) = 2 /\ pairs[1][1] = pairs[2][1] /\ pairs[1][2] # pairs[2][2]
    /\ gap # <<>>
    /\ \E j \in 1..Len(pairs[2][2]) : pairs[2][2][j] \in Whitespace

\* C2: with no get() so far, the parser after any number of chunks is in the
\* state one consume call with the same text leaves it in, and a get() that
\* follows returns the same mapping.
C2_ChunkInvariance ==
    /\ gets = 0 =>
          [Self EXCEPT !.error = raised] = consume(NewParser, Prefix(input, pos))
    /\ FirstGet => ret = Returned(consume(NewParser, Prefix(input, pos)))

C2_Witness ==
    /\ chunks = 2 /\ FirstGet /\ pos = Len(input)
    /\ wf /\ Len(pairs) = 2 /\ ret = MapOf(pairs)

\* C3: for a well-formed flat object, get() calls between the chunks do not
\* change what the final get() returns.
C3_GetDoesNotCorrupt ==
    (wf /\ FinalGet) => ret = Returned(consume(NewParser, input))

\* C4: the first get(), on a prefix that ends after the closing quote of
\* key i and before the closing quote of its value, returns the earlier
\* pairs plus key i mapped to the value characters received so far (none
\* before the opening quote has passed), and leaves current_key and
\* current_value unset.
InValue(i) == pos >= KeyClosed(pairs, gap, i) /\ pos < ValClosed(pairs, gap, i)

C4_OpenValueSnapshot ==
    \A i \in 1..Len(pairs) :
        (wf /\ FirstGet /\ InValue(i)) =>
            /\ ret = DictSet(MapOf(Prefix(pairs, i - 1)), Str(pairs[i][1]),
                             Str(Prefix(pairs[i][2],
                                        pos - ValOpened(pairs, gap, i))))
            /\ current_key = None
            /\ current_value = None

C4_Witness ==
    /\ wf /\ FirstGet /\ Len(pairs) = 2 /\ InValue(2)
    /\ pos = ValOpened(pairs, gap, 2) + 1
    /\ Len(pairs[2][2]) = 2
    /\ pairs[1][1] # pairs[2][1]
    /\ chunks = 1

\* C5: the first get(), on a prefix that ends after the '{' or a comma and
\* before the closing quote of key i, returns exactly the earlier pairs;
\* after '{' alone, the empty mapping.
AfterSeparator(i) ==
    IF i = 1 THEN 1 ELSE ValClosed(pairs, gap, i - 1) + Len(gap) + 1
InKey(i) == pos >= AfterSeparator(i) /\ pos < KeyClosed(pairs, gap, i)

C5_UnfinishedKeyDropped ==
    /\ \A i \in 1..Len(pairs) :
          (wf /\ FirstGet /\ InKey(i)) => ret = MapOf(Prefix(pairs, i - 1))
    /\ (wf /\ FirstGet /\ pos = 1) => ret = EmptyDict

C5_Witness ==
    /\ wf /\ FirstGet /\ Len(pairs) = 2 /\ InKey(2)
    /\ in_string /\ partial_string # <<>>
    /\ DOMAIN ret = {Str(pairs[1][1])}

\* C6: as long as no '{' has been consumed, the stack is empty, result is
\* the empty mapping and every get() has returned the empty mapping.
C6_NoContainerEmptySnapshot ==
    opens = 0 =>
        /\ stack = <<>>
        /\ heap[result] = EmptyDict
        /\ gets > 0 => ret = EmptyDict

C6_Witness ==
    /\ opens = 0 /\ op = "get" /\ pos >= 4
    /\ Truthy(current_key, heap) /\ current_value # None /\ ~in_string

\* C7: no call raises: the call just made did not, and from the state
\* reached neither does the handling of any character nor get().
C7_NeverFails ==
    /\ raised = "none"
    /\ \A o \in Chars \cup {"get"} : Ok(Do(Self, o))

C7_Witness ==
    /\ raised = "none" /\ gets = 2 /\ op = "consume"
    /\ stack = <<>> /\ opens = 1
    /\ current_key = None /\ current_value # None

\* C8 as stated: every key of a mapping returned by get() is in the mapping
\* the next get() returns, whatever was consumed in between.
C8_KeysNeverLost ==
    [][(gets' = gets + 1 /\ gets > 0) => DOMAIN ret \subseteq DOMAIN ret']_vars

\* C8 amended: the same, for streams in which at most one '{' is consumed.
C8_KeysKeptOneObject ==
    [][(gets' = gets + 1 /\ gets > 0 /\ opens <= 1)
          => DOMAIN ret \subseteq DOMAIN ret']_vars

C8_Witness ==
    /\ gets = 2 /\ op = "get" /\ opens = 1
    /\ DOMAIN ret # {} /\ in_string /\ partial_string # <<>>

\* an entry of an existing dict was written between p and q
Wrote(p, q) == \E i \in 1..Len(p.heap) : q.heap[i] # p.heap[i]

\* C9: whenever ',', '}' or get() writes the pending pair into a Frame,
\* current_key is unset afterwards.
C9_KeyClearedAtCommit ==
    \A o \in {",", "}", "get"} :
        Wrote(Self, Do(Self, o)) => Do(Self, o).current_key = None

\* C10: whenever a call shortens the stack or assigns result, the call is
\* the handling of a '}'.
C10_OnlyCloseMaterializes ==
    \A o \in Chars \cup {"get"} :
        (Len(Do(Self, o).stack) < Len(stack) \/ Do(Self, o).result # result)
            => o = "}"

\* C11: the stack never holds more than one Frame, so when '}' pops, the
\* stack is empty afterwards (the branch that stores the completed object
\* under current_key in a parent Frame is not taken), and every value
\* stored in a dict is a string.
C11_StackDepthAtMostOne ==
    /\ Len(stack) <= 1
    /\ stack # <<>> => Pop(Self).stack = <<>>
    /\ \A i \in 1..Len(heap) : \A k \in DOMAIN heap[i] : heap[i][k].kind = "str"

C11_Witness ==
    /\ Len(stack) = 1 /\ opens >= 2 /\ Len(heap) = 2
    /\ current_key # None

\* C12 as stated: current_value is never set while current_key is unset.
C12_ValueOnlyWithKey == current_key = None => current_value = None

\* C12 amended: the same, while the text fed is a well-formed flat object
\* (or a prefix of one) whose keys and values are quoted strings.
C12_ValueOnlyWithKeyWellFormed ==
    wf => (current_key = None => current_value = None)

C12_Witness ==
    /\ wf /\ gets >= 1 /\ op = "consume" /\ Len(pairs) = 2
    /\ current_key # None /\ current_value # None
    /\ pos > ValClosed(pairs, gap, 1)

\* C13: inside a string every character other than the quote, structural
\* or not, is appended to the accumulator and nothing else changes, and the
\* closing quote commits exactly the accumulated characters.
C13_StringsVerbatim ==
    in_string =>
        /\ \A c \in Chars \ {"\""} :
              Dispatch(Self, c) = [Self EXCEPT !.partial_string = Append(@, c)]
        /\ LET q == Dispatch(Self, "\"")
           IN  IF current_key = None
               THEN q.current_key = Str(partial_string)
               ELSE q.current_value = Str(partial_string)

\* the pending pair is stored in the top Frame of p when q is reached
Stored(p, q) ==
    /\ p.current_key \in DOMAIN q.heap[Top(p)]
    /\ q.heap[Top(p)][p.current_key] = p.current_value

\* C14: with current_key any string (the empty one included), current_value
\* set and a Frame on the stack, each of ',', '}' and get() stores the pair
\* in that Frame.
C14_EverySetKeyCommits ==
    (current_key # None /\ current_value # None /\ stack # <<>>) =>
        \A o \in {",", "}", "get"} : Stored(Self, Do(Self, o))

\* C15: in_string holds exactly when an odd number of quotes has been
\* consumed; no other character and no get() changes it; a closing quote
\* writes the accumulator to current_key when that is unset, else to
\* current_value, touches nothing else of the pair and empties the
\* accumulator.
C15_QuoteToggling ==
    /\ in_string <=> (quotes % 2 = 1)
    /\ \A o \in (Chars \ {"\""}) \cup {"get"} : Do(Self, o).in_string = in_string
    /\ Dispatch(Self, "\"").in_string = ~in_string
    /\ in_string =>
          LET q == Dispatch(Self, "\"")
          IN  /\ q.partial_string = <<>>
              /\ IF current_key = None
                 THEN /\ q.current_key = Str(partial_string)
                      /\ q.current_value = current_value
                 ELSE /\ q.current_value = Str(partial_string)
                      /\ q.current_key = current_key

C15_Witness ==
    /\ quotes = 4 /\ ~in_string /\ gets >= 1
    /\ current_key # None /\ current_value # None
    /\ current_key # current_value

\* C16: ':' in any state, '{' with a Frame on the stack, '}' with an empty
\* stack and whitespace outside a string leave every field as it was.
C16_GuardedNoOps ==
    /\ Dispatch(Self, ":") = Self
    /\ stack # <<>> => Dispatch(Self, "{") = Self
    /\ stack = <<>> => Dispatch(Self, "}") = Self
    /\ ~in_string => \A c \in Whitespace : Dispatch(Self, c) = Self

\* the state '{' alone leaves, reached with more characters consumed
C16_Witness ==
    /\ pos >= 4 /\ gets = 0 /\ opens >= 2
    /\ [Self EXCEPT !.error = raised] = consume(NewParser, <<"{">>)

\* C17: a get() that follows a get() changes no field and returns an equal
\* mapping: right after a get(), and after a get() from any state.
C17_GetIdempotent ==
    /\ op = "get" =>
          /\ get(Self) = Self
          /\ Returned(Self) = ret
    /\ LET g == get(Self)
       IN  /\ get(g) = g
           /\ Returned(g) = Deref(g, g.result)

C17_Witness ==
    /\ op = "get" /\ gets = 1 /\ stack = <<>> /\ result = 2
    /\ ret # EmptyDict /\ in_string /\ current_key = None

OnStack(i, st) == \E j \in 1..Len(st) : st[j] = i

\* C18: the dict a get() returns is not on the stack when get() returns; a
\* dict that is off the stack is never written and never pushed again, so
\* the dict last returned still has the entries it was returned with.
C18_SnapshotNeverModified ==
    [][/\ gets' = gets + 1 => ~OnStack(ret_ref', stack')
       /\ \A i \in 1..Len(heap) :
             ~OnStack(i, stack) => (heap'[i] = heap[i] /\ ~OnStack(i, stack'))
       /\ gets' > 0 => (heap'[ret_ref'] = ret' /\ ~OnStack(ret_ref', stack'))
      ]_vars

C18_Witness ==
    /\ gets = 1 /\ op = "consume" /\ ret # EmptyDict
    /\ stack # <<>> /\ heap[ret_ref] = ret /\ opens = 2

\* C19: ',' handled with a non-empty current_key, current_value set and an
\* empty stack clears both and changes nothing else: no dict, and so
\* neither result nor any later snapshot, receives the pair.
C19_CommaEmptyStackDiscards ==
    (Truthy(current_key, heap) /\ current_value # None /\ stack = <<>>) =>
        Dispatch(Self, ",") =
            [Self EXCEPT !.current_key = None, !.current_value = None]

C19_Witness ==
    /\ Truthy(current_key, heap) /\ current_value # None /\ stack = <<>>
    /\ opens = 1 /\ gets = 1 /\ op = "consume" /\ ret = EmptyDict

====
